---- MODULE Spec2Model ----
(***************************************************************************)
(* supply-chain-siren: the risk-scoring engine (scoring.py, models.py)     *)
(* and the registry client with its on-disk metadata cache (osint.py),     *)
(* driven by the batch loop of cli.py.                                     *)
(*                                                                         *)
(* Conventions                                                             *)
(*   - a Python Optional value is a sequence of length <= 1: None is <<>>, *)
(*     a present value v is <<v>>;                                         *)
(*   - a package name is a sequence of one-character strings;              *)
(*   - instants and durations are integers, in seconds;                    *)
(*   - a JSON value is a pair of a tag and a value (see the cache section).*)
(***************************************************************************)
EXTENDS Integers, Sequences, FiniteSets, TLC

(***************************************************************************)
(* Bounds of the model.                                                    *)
(***************************************************************************)
\* longest reference list per ecosystem drawn for the typosquat scan
MaxTop == 2
\* how many times the wall clock may advance in one behaviour
MaxTicks == 1
\* most dependencies one run collects from its manifests
MaxDeps == 2
\* most release timestamps in one registry document
MaxReleases == 2

(***************************************************************************)
(* Program constants.                                                      *)
(***************************************************************************)
RECENT_THRESHOLD_DAYS == 45
STALE_THRESHOLD_DAYS == 365
LOW_DOWNLOADS_THRESHOLD == 500
CACHE_TTL_SECONDS == 6 * 60 * 60

\* timedelta(days=n), in seconds
timedelta(days) == days * 24 * 60 * 60

None == <<>>
Some(v) == <<v>>
Min(a, b) == IF a <= b THEN a ELSE b
Max(a, b) == IF a >= b THEN a ELSE b

VARIABLES
    now,            \* the wall clock (time.time(), datetime.now(timezone.utc))
    ticks,          \* how often the clock has advanced
    top_packages,   \* osint._top_packages: ecosystem -> ordered reference names
    spec,           \* the DependencySpec handed to assess_dependency
    metadata,       \* the Optional PackageMetadata handed to assess_dependency
    assessment,     \* the PackageAssessment under construction: signals, score
    pc,             \* position inside assess_dependency
    evaluated,      \* the evaluators called so far, in call order
    store,          \* the cache file registry_cache.json
    payload,        \* per run: MetadataCache.payload (None before the import)
    cpc,            \* per run: position inside the program
    assessments,    \* per run: cli's assessments dict, in insertion order
    idx,            \* per run: how many entries the batch loop has done
    origin,         \* per run: slug -> the record fetch_metadata returned when
                    \*          it wrote the entry now in payload
    storeOrigin     \* the same for the entries of the cache file

scoringVars == <<top_packages, spec, metadata, assessment, pc, evaluated>>
cliVars == <<store, payload, cpc, assessments, idx, origin, storeOrigin>>
vars == <<now, ticks, scoringVars, cliVars>>

(***************************************************************************)
(* models.py                                                               *)
(***************************************************************************)
Ecosystem == {"pypi", "npm"}

\* str.lower(), on the characters the model's names use
LowerChar(c) == CASE c = "A" -> "a" [] c = "B" -> "b" [] OTHER -> c
Lower(name) == [i \in 1..Len(name) |-> LowerChar(name[i])]

DependencySpec(name, ecosystem) == [name |-> name, ecosystem |-> ecosystem]

\* DependencySpec.slug: f"{ecosystem}:{name.lower()}"
slug(s) == <<s.ecosystem, Lower(s.name)>>

\* the fields of PackageMetadata the program reads (latest_version, homepage,
\* repository_url and raw are carried along and never inspected)
PackageMetadata(name, ecosystem, first, latest, maintainers, downloads) ==
    [name             |-> name,
     ecosystem        |-> ecosystem,
     first_published  |-> first,
     latest_published |-> latest,
     maintainers      |-> maintainers,
     weekly_downloads |-> downloads]

RiskSignal(reason, score, category) ==
    [reason |-> reason, score |-> score, category |-> category]

\* PackageAssessment(dependency=spec, metadata=metadata): no signals, score 0
PackageAssessment == [signals |-> <<>>, score |-> 0]

\* mutant: the running total is not clamped
add_signal_unclamped(a, signal) ==
    [signals |-> Append(a.signals, signal),
     score   |-> a.score + signal.score]

add_signal(a, signal) ==
    [signals |-> Append(a.signals, signal),
     score   |-> Min(100, a.score + signal.score)]

(***************************************************************************)
(* rapidfuzz Levenshtein.distance: insertion, deletion, substitution, each *)
(* of cost 1.                                                              *)
(***************************************************************************)
RECURSIVE Levenshtein(_, _)
Levenshtein(s, t) ==
    IF Len(s) = 0 THEN Len(t)
    ELSE IF Len(t) = 0 THEN Len(s)
    ELSE LET del == Levenshtein(Tail(s), t) + 1
             ins == Levenshtein(s, Tail(t)) + 1
             sub == Levenshtein(Tail(s), Tail(t))
                      + (IF Head(s) = Head(t) THEN 0 ELSE 1)
         IN  Min(del, Min(ins, sub))

(***************************************************************************)
(* scoring.py: the five evaluators.  Each takes the assessment and returns *)
(* the assessment it leaves behind.                                        *)
(***************************************************************************)
get_top_packages(ecosystem) ==
    IF ecosystem \in DOMAIN top_packages THEN top_packages[ecosystem] ELSE <<>>

\* mutant: the closest reference name wins, not the first within 2 edits
typosquat_scan_closest(s, tops, i, a) ==
    LET d == [k \in 1..Len(tops) |-> Levenshtein(s.name, tops[k])]
        within == { k \in i..Len(tops) : d[k] <= 2 }
    IN  IF within = {} \/ \E k \in within : d[k] = 0 THEN a
        ELSE LET best == CHOOSE k \in within : \A j \in within :
                             d[k] < d[j] \/ (d[k] = d[j] /\ k <= j)
             IN  add_signal(a, RiskSignal(
                     <<"edits away from popular package", s.name, d[best], tops[best]>>,
                     50, "typosquat"))

\* the for loop over top_packages, from index i on
RECURSIVE typosquat_scan(_, _, _, _)
typosquat_scan(s, tops, i, a) ==
    IF i > Len(tops) THEN a
    ELSE LET top == tops[i]
             distance == Levenshtein(s.name, top)
         IN  IF distance = 0 THEN a
             ELSE IF distance <= 2
                  THEN add_signal(a, RiskSignal(
                           <<"edits away from popular package", s.name, distance, top>>,
                           50, "typosquat"))
                  ELSE typosquat_scan(s, tops, i + 1, a)

evaluate_typosquat(s, a) ==
    typosquat_scan(s, get_top_packages(s.ecosystem), 1, a)

\* mutant: a package published exactly 45 days ago is no longer fresh
evaluate_recency_strict(md, a, t) ==
    IF md.first_published = None THEN a
    ELSE IF t - md.first_published[1] < timedelta(RECENT_THRESHOLD_DAYS)
         THEN add_signal(a, RiskSignal(
                  <<"Package is newly published; consider additional vetting.">>,
                  25, "fresh-release"))
         ELSE a

evaluate_recency(md, a, t) ==
    IF md.first_published = None THEN a
    ELSE IF t - md.first_published[1] <= timedelta(RECENT_THRESHOLD_DAYS)
         THEN add_signal(a, RiskSignal(
                  <<"Package is newly published; consider additional vetting.">>,
                  25, "fresh-release"))
         ELSE a

\* mutant: the staleness evaluator stands back when a fresh-release signal
\* is already in the list
evaluate_staleness_unless_fresh(md, a, t) ==
    IF md.latest_published = None THEN a
    ELSE IF /\ t - md.latest_published[1] >= timedelta(STALE_THRESHOLD_DAYS)
            /\ \A i \in 1..Len(a.signals) : a.signals[i].category # "fresh-release"
         THEN add_signal(a, RiskSignal(
                  <<"Latest release is over a year old; project may be unmaintained.">>,
                  20, "stale-package"))
         ELSE a

evaluate_staleness(md, a, t) ==
    IF md.latest_published = None THEN a
    ELSE IF t - md.latest_published[1] >= timedelta(STALE_THRESHOLD_DAYS)
         THEN add_signal(a, RiskSignal(
                  <<"Latest release is over a year old; project may be unmaintained.">>,
                  20, "stale-package"))
         ELSE a

evaluate_popularity(md, a) ==
    LET downloads == md.weekly_downloads
    IN  IF downloads = None THEN a
        ELSE IF downloads[1] < LOW_DOWNLOADS_THRESHOLD
             THEN add_signal(a, RiskSignal(
                      <<"Weekly downloads are low; limited community adoption.",
                        downloads[1]>>,
                      15, "popularity"))
             ELSE a

evaluate_maintainers(md, a) ==
    LET maintainers == md.maintainers
    IN  IF Len(maintainers) <= 1
        THEN add_signal(a, RiskSignal(
                 <<"Single maintainer detected; project is susceptible to account compromise.">>,
                 20, "maintainers"))
        ELSE a

metadata_gaps_signal ==
    RiskSignal(<<"Package metadata unavailable; registry lookup failed.">>,
               40, "metadata-gaps")

(***************************************************************************)
(* scoring.py: assess_dependency, one step per statement.                  *)
(***************************************************************************)
\* mutant: the metadata-absent branch does not return
AssessStart_missing_return ==
    /\ pc = "start"
    /\ assessment' = IF metadata = None
                     THEN add_signal(PackageAssessment, metadata_gaps_signal)
                     ELSE PackageAssessment
    /\ pc' = "typosquat"
    /\ UNCHANGED <<now, ticks, top_packages, spec, metadata, evaluated, cliVars>>

AssessStart ==
    /\ pc = "start"
    /\ IF metadata = None
       THEN /\ assessment' = add_signal(PackageAssessment, metadata_gaps_signal)
            /\ pc' = "done"
       ELSE /\ assessment' = PackageAssessment
            /\ pc' = "typosquat"
    /\ UNCHANGED <<now, ticks, top_packages, spec, metadata, evaluated, cliVars>>

EvaluateTyposquat ==
    /\ pc = "typosquat"
    /\ assessment' = evaluate_typosquat(spec, assessment)
    /\ evaluated' = Append(evaluated, "typosquat")
    /\ pc' = "recency"
    /\ UNCHANGED <<now, ticks, top_packages, spec, metadata, cliVars>>

EvaluateRecency ==
    /\ pc = "recency"
    /\ assessment' = evaluate_recency(metadata[1], assessment, now)
    /\ evaluated' = Append(evaluated, "fresh-release")
    /\ pc' = "staleness"
    /\ UNCHANGED <<now, ticks, top_packages, spec, metadata, cliVars>>

EvaluateStaleness ==
    /\ pc = "staleness"
    /\ assessment' = evaluate_staleness(metadata[1], assessment, now)
    /\ evaluated' = Append(evaluated, "stale-package")
    /\ pc' = "popularity"
    /\ UNCHANGED <<now, ticks, top_packages, spec, metadata, cliVars>>

EvaluatePopularity ==
    /\ pc = "popularity"
    /\ assessment' = evaluate_popularity(metadata[1], assessment)
    /\ evaluated' = Append(evaluated, "popularity")
    /\ pc' = "maintainers"
    /\ UNCHANGED <<now, ticks, top_packages, spec, metadata, cliVars>>

EvaluateMaintainers ==
    /\ pc = "maintainers"
    /\ assessment' = evaluate_maintainers(metadata[1], assessment)
    /\ evaluated' = Append(evaluated, "maintainers")
    /\ pc' = "done"
    /\ UNCHANGED <<now, ticks, top_packages, spec, metadata, cliVars>>

\* The wall clock advances.  Only the cache lookups and writes of the batch
\* loop and the recency and staleness evaluators read the clock, so it is
\* advanced only when one of them is the next statement of some run: an
\* advance at any other moment shows exactly as one right before the next
\* reading.
TickSteps == {1, CACHE_TTL_SECONDS, CACHE_TTL_SECONDS + 1}

ClockIsRead ==
    \/ pc \in {"recency", "staleness"}
    \/ \E p \in DOMAIN cpc : cpc[p] = "loop" /\ idx[p] < Len(assessments[p])

Tick ==
    /\ ticks < MaxTicks
    /\ ClockIsRead
    /\ \E d \in TickSteps : now' = now + d
    /\ ticks' = ticks + 1
    /\ UNCHANGED <<scoringVars, cliVars>>

(***************************************************************************)
(* JSON values, as json.loads delivers them: a pair of a tag and a value,   *)
(* j[1] and j[2].  A dict is a function from its keys, a list a sequence.  *)
(***************************************************************************)
JNull == <<"null", <<>>>>
JNum(n) == <<"num", n>>
JStr(x) == <<"str", x>>
JList(l) == <<"list", l>>
JDict(f) == <<"dict", f>>

\* Python truthiness of a JSON value
Truthy(j) ==
    CASE j[1] = "null" -> FALSE
      [] j[1] = "num"  -> j[2] # 0
      [] j[1] = "str"  -> j[2] # ""
      [] j[1] = "list" -> Len(j[2]) > 0
      [] j[1] = "dict" -> DOMAIN j[2] # {}

\* dict.get(key), None when the key is missing
dict_get(d, key) == IF key \in DOMAIN d[2] THEN d[2][key] ELSE JNull

\* d[key] = value
dict_put(d, key, value) ==
    JDict([k \in DOMAIN d[2] \cup {key} |-> IF k = key THEN value ELSE d[2][k]])

\* the outcome of a call: it raised, or it returned a value
Raised == [raised |-> TRUE, value |-> JNull]
Returned(j) == [raised |-> FALSE, value |-> j]

(***************************************************************************)
(* osint.py: MetadataCache                                                 *)
(***************************************************************************)
\* the cache file: missing, text json.loads rejects, or a JSON document
MissingFile == [kind |-> "missing", value |-> JNull]
GarbageFile == [kind |-> "garbage", value |-> JNull]
JsonFile(j) == [kind |-> "json", value |-> j]

\* __init__: the payload read from the cache file
MetadataCache_init(file) ==
    IF file.kind = "missing" THEN JDict(<<>>)
    ELSE IF file.kind = "garbage" THEN JDict(<<>>)
    ELSE file.value

\* mutant: an entry expires when it is exactly CACHE_TTL_SECONDS old
MetadataCache_get_expires_early(pl, key, t) ==
    LET entry == pl[2][key]
    IN  IF key \notin DOMAIN pl[2] THEN Returned(JNull)
        ELSE IF t - entry[2].timestamp[2] >= CACHE_TTL_SECONDS THEN Returned(JNull)
        ELSE Returned(entry[2].data)

\* get(key) at time t
MetadataCache_get(pl, key, t) ==
    IF pl[1] # "dict" THEN Raised                       \* no attribute 'get'
    ELSE LET entry == dict_get(pl, key)
         IN  IF ~Truthy(entry) THEN Returned(JNull)
             ELSE IF entry[1] # "dict" THEN Raised      \* no attribute 'get'
             ELSE LET timestamp == IF "timestamp" \in DOMAIN entry[2]
                                   THEN entry[2]["timestamp"] ELSE JNum(0)
                  IN  IF timestamp[1] # "num" THEN Raised   \* float - str
                      ELSE IF t - timestamp[2] > CACHE_TTL_SECONDS
                           THEN Returned(JNull)
                           ELSE Returned(dict_get(entry, "data"))

\* set(key, data) at time t: the payload it leaves behind, which it also
\* writes to the cache file
MetadataCache_set(pl, key, data, t) ==
    dict_put(pl, key, JDict([timestamp |-> JNum(t), data |-> data]))

(***************************************************************************)
(* Timestamps as the registries send them: text.  lex is the text's place  *)
(* in string order, instant what datetime.fromisoformat makes of it.       *)
(***************************************************************************)
IsoText(t) == [lex |-> t, instant |-> Some(t)]

\* a timestamp text written with a UTC offset: the text shows the local
\* reading, instant + offset, and fixed-width texts order as their local
\* readings do
IsoTextAt(t, offset) == [lex |-> t + offset, instant |-> Some(t)]

\* _parse_datetime: None for None, the instant otherwise
parse_datetime(text) == IF text = None THEN None ELSE text[1].instant

\* PackageMetadata.model_dump(mode="json")
model_dump(md) ==
    LET stamp(o) == IF o = None THEN JNull ELSE JStr(IsoText(o[1]))
    IN  JDict([name             |-> JStr(md.name),
               ecosystem        |-> JStr(md.ecosystem),
               first_published  |-> stamp(md.first_published),
               latest_published |-> stamp(md.latest_published),
               maintainers      |-> JList([i \in 1..Len(md.maintainers) |->
                                              JStr(md.maintainers[i])]),
               weekly_downloads |-> IF md.weekly_downloads = None THEN JNull
                                    ELSE JNum(md.weekly_downloads[1])])

\* PackageMetadata(**cached): raises unless cached is a mapping that names
\* the required fields
model_validate(cached) ==
    LET stamp(j) == IF j[1] = "null" THEN None ELSE j[2].instant
        field(k) == dict_get(cached, k)
    IN  IF cached[1] # "dict" THEN Raised
        ELSE IF ~({"name", "ecosystem"} \subseteq DOMAIN cached[2]) THEN Raised
        ELSE Returned(Some(PackageMetadata(
                 field("name")[2],
                 field("ecosystem")[2],
                 stamp(field("first_published")),
                 stamp(field("latest_published")),
                 IF field("maintainers")[1] = "null" THEN <<>>
                 ELSE [i \in 1..Len(field("maintainers")[2]) |->
                          field("maintainers")[2][i][2]],
                 IF field("weekly_downloads")[1] = "null" THEN None
                 ELSE Some(field("weekly_downloads")[2]))))

(***************************************************************************)
(* osint.py: the registry responses and their normalisation                *)
(***************************************************************************)
\* what _client.get can do: raise httpx.HTTPError, answer with another
\* status than 200, answer 200 with a body resp.json() rejects, or answer
\* 200 with a document
ConnectError == [kind |-> "connect_error", doc |-> None]
StatusError == [kind |-> "status_error", doc |-> None]
MalformedBody == [kind |-> "malformed_body", doc |-> None]
Ok(doc) == [kind |-> "ok", doc |-> Some(doc)]

\* min and max of a sequence of timestamp texts, in string order
RECURSIVE min_text(_)
min_text(texts) ==
    IF Len(texts) = 0 THEN None
    ELSE LET rest == min_text(Tail(texts))
         IN  IF rest = None \/ Head(texts).lex < rest[1].lex
             THEN Some(Head(texts)) ELSE rest

RECURSIVE max_text(_)
max_text(texts) ==
    IF Len(texts) = 0 THEN None
    ELSE LET rest == max_text(Tail(texts))
         IN  IF rest = None \/ Head(texts).lex > rest[1].lex
             THEN Some(Head(texts)) ELSE rest

\* a maintainer entry of a registry document: an object with a name field
\* or a plain string; name is "" when the field is missing or empty
MaintainerObject(name) == [object |-> TRUE, name |-> name]
MaintainerString(name) == [object |-> FALSE, name |-> name]

\* _fetch_pypi: m.get("name") or str(m), then the non-empty ones
RECURSIVE pypi_maintainers(_)
pypi_maintainers(entries) ==
    IF Len(entries) = 0 THEN <<>>
    ELSE (IF Head(entries).name = "" THEN <<>> ELSE <<Head(entries).name>>)
           \o pypi_maintainers(Tail(entries))

\* _fetch_npm: an object's name when non-empty, a string as it is
RECURSIVE npm_maintainers(_)
npm_maintainers(entries) ==
    IF Len(entries) = 0 THEN <<>>
    ELSE (IF Head(entries).object /\ Head(entries).name = "" THEN <<>>
          ELSE <<Head(entries).name>>)
           \o npm_maintainers(Tail(entries))

\* mutant: first_published from the latest text, latest_published from the
\* earliest
normalize_pypi_swapped(s, doc) ==
    PackageMetadata(s.name, "pypi",
                    parse_datetime(max_text(doc.upload_times)),
                    parse_datetime(min_text(doc.upload_times)),
                    pypi_maintainers(doc.maintainers),
                    doc.last_month_downloads)

\* _fetch_pypi on a 200 response with document doc
normalize_pypi(s, doc) ==
    PackageMetadata(s.name, "pypi",
                    parse_datetime(min_text(doc.upload_times)),
                    parse_datetime(max_text(doc.upload_times)),
                    pypi_maintainers(doc.maintainers),
                    doc.last_month_downloads)

\* the entries of the time section other than "created" and "modified"
RECURSIVE version_times(_)
version_times(time_section) ==
    IF Len(time_section) = 0 THEN <<>>
    ELSE (IF Head(time_section)[1] \in {"created", "modified"} THEN <<>>
          ELSE <<Head(time_section)[2]>>)
           \o version_times(Tail(time_section))

\* _fetch_npm_downloads
fetch_npm_downloads(resp) ==
    CASE resp.kind = "connect_error"  -> Returned(None)
      [] resp.kind = "status_error"   -> Returned(None)
      [] resp.kind = "malformed_body" -> Raised
      [] resp.kind = "ok"             -> Returned(resp.doc[1].downloads)

\* _fetch_npm on a 200 response with document doc, given the downloads
normalize_npm(s, doc, downloads) ==
    PackageMetadata(s.name, "npm",
                    parse_datetime(min_text(version_times(doc.time))),
                    parse_datetime(max_text(version_times(doc.time))),
                    npm_maintainers(doc.maintainers),
                    downloads)

(***************************************************************************)
(* osint.py: fetch_metadata.  The outcome of one call at time t for spec s *)
(* with cache payload pl, when the registry answers resp (and dl to the    *)
(* npm downloads request): whether it raised, what it returned, whether    *)
(* the cache answered, how many requests it sent, and the payload it       *)
(* leaves, which it has written to the cache file when wrote holds.        *)
(***************************************************************************)
FetchOutcome(raised, value, hit, requests, pl, wrote) ==
    [raised |-> raised, value |-> value, hit |-> hit,
     requests |-> requests, payload |-> pl, wrote |-> wrote]

\* mutant: the fetched record is returned without being written to the cache
fetch_store_without_set(pl, s, md, requests, t) ==
    FetchOutcome(FALSE, Some(md), FALSE, requests, pl, FALSE)

\* if metadata: _cache.set(key, metadata.model_dump(mode="json")); return metadata
fetch_store(pl, s, md, requests, t) ==
    FetchOutcome(FALSE, Some(md), FALSE, requests,
                 MetadataCache_set(pl, slug(s), model_dump(md), t), TRUE)

fetch_remote(pl, s, resp, dl, t) ==
    CASE resp.kind = "connect_error"  -> FetchOutcome(FALSE, None, FALSE, 1, pl, FALSE)
      [] resp.kind = "status_error"   -> FetchOutcome(FALSE, None, FALSE, 1, pl, FALSE)
      [] resp.kind = "malformed_body" -> FetchOutcome(TRUE, None, FALSE, 1, pl, FALSE)
      [] resp.kind = "ok" ->
           IF s.ecosystem = "pypi"
           THEN fetch_store(pl, s, normalize_pypi(s, resp.doc[1]), 1, t)
           ELSE LET downloads == fetch_npm_downloads(dl)
                IN  IF downloads.raised
                    THEN FetchOutcome(TRUE, None, FALSE, 2, pl, FALSE)
                    ELSE fetch_store(pl, s,
                             normalize_npm(s, resp.doc[1], downloads.value), 2, t)

fetch_metadata(pl, s, resp, dl, t) ==
    LET cached == MetadataCache_get(pl, slug(s), t)
    IN  IF cached.raised THEN FetchOutcome(TRUE, None, FALSE, 0, pl, FALSE)
        ELSE IF Truthy(cached.value)
        THEN LET md == model_validate(cached.value)
             IN  IF md.raised THEN FetchOutcome(TRUE, None, FALSE, 0, pl, FALSE)
                 ELSE FetchOutcome(FALSE, md.value, TRUE, 0, pl, FALSE)
        ELSE fetch_remote(pl, s, resp, dl, t)

(***************************************************************************)
(* scoring.py: assess_dependency as one call at time t                     *)
(***************************************************************************)
assess_dependency(s, md, t) ==
    IF md = None
    THEN add_signal(PackageAssessment, metadata_gaps_signal)
    ELSE LET a1 == evaluate_typosquat(s, PackageAssessment)
             a2 == evaluate_recency(md[1], a1, t)
             a3 == evaluate_staleness(md[1], a2, t)
             a4 == evaluate_popularity(md[1], a3)
         IN  evaluate_maintainers(md[1], a4)

(***************************************************************************)
(* cli.py: one run of the program.  Several runs share the cache file.     *)
(***************************************************************************)
Runs == {"run1", "run2"}

\* an entry of cli's assessments dict: the key, the PackageAssessment and,
\* once the loop has replaced the placeholder (enriched), when fetch_metadata
\* was called for it, whether the cache answered and the requests it sent
Entry(s, md, a, enriched, at, hit, requests) ==
    [slug |-> slug(s), dependency |-> s, metadata |-> md, assessment |-> a,
     enriched |-> enriched, at |-> at, hit |-> hit, requests |-> requests]

\* assessments.setdefault(spec.slug, PackageAssessment(dependency=spec)), for
\* every spec in order
RECURSIVE collect(_, _)
collect(specs, acc) ==
    IF Len(specs) = 0 THEN acc
    ELSE collect(Tail(specs),
                 IF \E i \in 1..Len(acc) : acc[i].slug = slug(Head(specs))
                 THEN acc
                 ELSE Append(acc, Entry(Head(specs), None, PackageAssessment,
                                        FALSE, 0, FALSE, 0)))

\* the dependencies the manifests may declare
ManifestSpecs ==
    { DependencySpec(<<"A", "b">>, "pypi"),
      DependencySpec(<<"a", "b">>, "npm") }

ManifestLists == UNION { [1..n -> ManifestSpecs] : n \in 0..MaxDeps }

\* the documents the registries may answer with
PypiDocs ==
    { [upload_times |-> <<IsoText(0 - timedelta(10)), IsoText(0 - timedelta(400)),
                          IsoText(0 - timedelta(20))>>,
       maintainers |-> <<MaintainerObject("alice"), MaintainerString("")>>,
       last_month_downloads |-> Some(LOW_DOWNLOADS_THRESHOLD - 1)] }

NpmDocs ==
    { [time |-> << <<"created", IsoText(0 - timedelta(500))>>,
                   <<"modified", IsoText(0)>> >>,
       maintainers |-> <<MaintainerString("bob"), MaintainerObject("")>>] }

Responses(ecosystem) ==
    {ConnectError, StatusError, MalformedBody}
      \cup { Ok(d) : d \in IF ecosystem = "pypi" THEN PypiDocs ELSE NpmDocs }

DownloadResponses(ecosystem) ==
    IF ecosystem = "pypi" THEN {StatusError}
    ELSE {ConnectError, StatusError, MalformedBody,
          Ok([downloads |-> Some(LOW_DOWNLOADS_THRESHOLD)])}

\* import of osint: _cache = MetadataCache()
ImportOsint(p) ==
    /\ cpc[p] = "import"
    /\ payload' = [payload EXCEPT ![p] = Some(MetadataCache_init(store))]
    /\ origin' = [origin EXCEPT ![p] = storeOrigin]
    /\ cpc' = [cpc EXCEPT ![p] = "collect"]
    /\ UNCHANGED <<now, ticks, scoringVars, store, assessments, idx, storeOrigin>>

\* cli: the loop over the manifests
CollectDependencies(p) ==
    /\ cpc[p] = "collect"
    /\ \E specs \in ManifestLists :
          assessments' = [assessments EXCEPT ![p] = collect(specs, <<>>)]
    /\ cpc' = [cpc EXCEPT ![p] = "loop"]
    /\ UNCHANGED <<now, ticks, scoringVars, store, payload, idx, origin,
                   storeOrigin>>

\* cli: one iteration of the loop over assessments.items(); the loop is over
\* when idx has reached the length of assessments
Iterate(p) ==
    /\ cpc[p] = "loop"
    /\ idx[p] < Len(assessments[p])
    /\ LET s == assessments[p][idx[p] + 1].dependency
       IN  \E resp \in Responses(s.ecosystem), dl \in DownloadResponses(s.ecosystem) :
             \E f \in {fetch_metadata(payload[p][1], s, resp, dl, now)} :
                 /\ payload' = [payload EXCEPT ![p] = Some(f.payload)]
                 /\ store' = IF f.wrote THEN JsonFile(f.payload) ELSE store
                 /\ origin' = IF f.wrote
                              THEN [origin EXCEPT ![p] =
                                      [k \in DOMAIN origin[p] \cup {slug(s)} |->
                                         IF k = slug(s) THEN f.value[1]
                                         ELSE origin[p][k]]]
                              ELSE origin
                 /\ storeOrigin' = IF f.wrote THEN origin'[p] ELSE storeOrigin
                 /\ IF f.raised
                    THEN /\ cpc' = [cpc EXCEPT ![p] = "raised"]
                         /\ UNCHANGED <<assessments, idx>>
                    ELSE /\ assessments' =
                              [assessments EXCEPT ![p][idx[p] + 1] =
                                 Entry(s, f.value,
                                       assess_dependency(s, f.value, now),
                                       TRUE, now, f.hit, f.requests)]
                         /\ idx' = [idx EXCEPT ![p] = idx[p] + 1]
                         /\ UNCHANGED cpc
    /\ UNCHANGED <<now, ticks, scoringVars>>

CliTopPackages ==
    [pypi |-> << <<"a", "b", "b">> >>, npm |-> << <<"a", "b">> >>]

CliIdle ==
    /\ payload = [p \in Runs |-> None]
    /\ cpc = [p \in Runs |-> "import"]
    /\ assessments = [p \in Runs |-> <<>>]
    /\ idx = [p \in Runs |-> 0]
    /\ origin = [p \in Runs |-> <<>>]
    /\ storeOrigin = <<>>

ScoringIdle ==
    /\ top_packages = CliTopPackages
    /\ spec = DependencySpec(<<>>, "pypi")
    /\ metadata = None
    /\ assessment = PackageAssessment
    /\ pc = "idle"
    /\ evaluated = <<>>

Init ==
    /\ now = 0
    /\ ticks = 0
    /\ ScoringIdle
    /\ store \in {MissingFile, GarbageFile}
    /\ CliIdle

Next ==
    \/ \E p \in Runs : ImportOsint(p)
    \/ \E p \in Runs : CollectDependencies(p)
    \/ \E p \in Runs : Iterate(p)
    \/ Tick

Spec == Init /\ [][Next]_vars

(***************************************************************************)
(* Inputs of assess_dependency.                                            *)
(***************************************************************************)
\* the names the reference lists are made of, pairwise 1 or 2 edits apart
ReferenceNames == { <<"a", "b">>, <<"a", "b", "b">>, <<"b", "b", "a">> }

\* the names a manifest may declare: the reference names and one that is 3
\* edits from two of them and 2 from the third
PackageNames == ReferenceNames \cup { <<"b", "a", "a", "a">> }

\* ordered reference lists without repetition, at most MaxTop long
RefLists ==
    UNION { { l \in [1..n -> ReferenceNames] :
                \A i, j \in 1..n : i # j => l[i] # l[j] } : n \in 0..MaxTop }

\* ages, in days, of the publication instants: around the recency threshold
\* and far beyond it for first_published, around the staleness threshold and
\* far below it for latest_published
FirstAges ==
    { RECENT_THRESHOLD_DAYS - 1, RECENT_THRESHOLD_DAYS, RECENT_THRESHOLD_DAYS + 1,
      STALE_THRESHOLD_DAYS + 1 }
LatestAges ==
    { RECENT_THRESHOLD_DAYS - 1,
      STALE_THRESHOLD_DAYS - 1, STALE_THRESHOLD_DAYS, STALE_THRESHOLD_DAYS + 1 }

Instants(t, ages) == { None } \cup { Some(t - timedelta(d)) : d \in ages }

MaintainerLists == { <<>>, <<"alice">>, <<"alice", "bob">> }
DownloadCounts ==
    { None, Some(LOW_DOWNLOADS_THRESHOLD - 1), Some(LOW_DOWNLOADS_THRESHOLD) }

MetadataInputs(s, t) ==
    { PackageMetadata(s.name, s.ecosystem, f, l, m, d) :
        f \in Instants(t, FirstAges), l \in Instants(t, LatestAges),
        m \in MaintainerLists, d \in DownloadCounts }

InitScoring ==
    /\ now = 0
    /\ ticks = 0
    /\ top_packages \in { [pypi |-> l, npm |-> <<>>] : l \in RefLists }
    /\ spec \in { DependencySpec(n, "pypi") : n \in PackageNames }
    /\ metadata \in { None } \cup { Some(md) : md \in MetadataInputs(spec, 0) }
    /\ assessment = PackageAssessment
    /\ pc = "start"
    /\ evaluated = <<>>
    /\ store = MissingFile
    /\ CliIdle

NextScoring ==
    \/ AssessStart
    \/ EvaluateTyposquat
    \/ EvaluateRecency
    \/ EvaluateStaleness
    \/ EvaluatePopularity
    \/ EvaluateMaintainers
    \/ Tick

SpecScoring == InitScoring /\ [][NextScoring]_vars

(***************************************************************************)
(* Properties of the scoring engine, checked under SpecScoring.            *)
(***************************************************************************)
\* the statement-by-statement assess_dependency and the one-call form agree
\* when the clock stands still
AssessAgrees ==
    (pc = "done" /\ ticks = 0) => assessment = assess_dependency(spec, metadata, now)

RECURSIVE SumSeverities(_)
SumSeverities(signals) ==
    IF Len(signals) = 0 THEN 0
    ELSE Head(signals).score + SumSeverities(Tail(signals))

SignalsOf(a, category) ==
    { i \in 1..Len(a.signals) : a.signals[i].category = category }

\* the step appends one signal and adds its severity, clamped, to the score
IsAddSignalStep ==
    /\ Len(assessment'.signals) = Len(assessment.signals) + 1
    /\ SubSeq(assessment'.signals, 1, Len(assessment.signals)) = assessment.signals
    /\ LET signal == assessment'.signals[Len(assessment'.signals)]
       IN  assessment'.score = Min(100, assessment.score + signal.score)

\* C1: at every moment of assess_dependency, so after every add_signal call,
\* score = min(100, sum of the severities of the signals); and every step
\* that changes the signal list or the score is one add_signal call, which
\* appends the signal and updates the score together.
C1_ScoreIsClampedSum ==
    /\ [](assessment.score = Min(100, SumSeverities(assessment.signals)))
    /\ [][assessment' # assessment => IsAddSignalStep]_vars

\* C1 witness: a finished assessment whose severities sum to more than 100,
\* so the clamp has acted
C1_Witness ==
    /\ pc = "done"
    /\ Len(assessment.signals) >= 4
    /\ SumSeverities(assessment.signals) > 100
    /\ assessment.score = 100

IsGapsOnly(a) ==
    /\ Len(a.signals) = 1
    /\ a.signals[1].category = "metadata-gaps"
    /\ a.signals[1].score = 40
    /\ a.score = 40

\* C2: the finished assessment is the single metadata-gaps signal of
\* severity 40, score 40, exactly when metadata is absent; with metadata
\* absent no evaluator is ever called; with metadata present no
\* metadata-gaps signal is ever in the list.
C2_MetadataAbsentPathExclusive ==
    /\ pc = "done" => (metadata = None <=> IsGapsOnly(assessment))
    /\ metadata = None => evaluated = <<>> /\ pc \in {"start", "done"}
    /\ metadata # None => SignalsOf(assessment, "metadata-gaps") = {}

\* C2 witness: assess_dependency has returned for absent metadata
C2_Witness ==
    /\ pc = "done"
    /\ metadata = None
    /\ IsGapsOnly(assessment)
    /\ evaluated = <<>>

TyposquatHasRun == pc \in {"recency", "staleness", "popularity", "maintainers", "done"}

References == get_top_packages(spec.ecosystem)

\* C4: once the typosquat evaluator has run, a dependency whose name is in
\* the reference list (edit distance 0 to some reference name) has no
\* typosquat signal, wherever in the list the name sits.
C4_ExactMatchSuppresses ==
    (/\ TyposquatHasRun
     /\ metadata # None
     /\ \E i \in 1..Len(References) : Levenshtein(spec.name, References[i]) = 0)
    => SignalsOf(assessment, "typosquat") = {}

\* the distances from the name to the reference names, in list order
Distances == [i \in 1..Len(References) |-> Levenshtein(spec.name, References[i])]

\* the first position of d holding a distance of at most 2, 0 when none does
FirstQualifying(d) ==
    LET within == { i \in 1..Len(d) : d[i] <= 2 }
    IN  IF within = {} THEN 0 ELSE CHOOSE i \in within : \A j \in within : i <= j

\* C5: once the typosquat evaluator has run with metadata present, there is
\* never more than one typosquat signal; and when the first reference name
\* in list order within 2 edits of the name is 1 or 2 edits away, there is
\* exactly one typosquat signal, of severity 50, and its reason gives the
\* name, that distance and that reference name.
C5_FirstMatchWins ==
    (TyposquatHasRun /\ metadata # None) =>
       LET d == Distances
           first == FirstQualifying(d)
           found == SignalsOf(assessment, "typosquat")
       IN  /\ Cardinality(found) <= 1
           /\ (first # 0 /\ d[first] \in {1, 2})
              => \E i \in 1..Len(assessment.signals) :
                    /\ found = {i}
                    /\ assessment.signals[i].score = 50
                    /\ assessment.signals[i].reason[2] = spec.name
                    /\ assessment.signals[i].reason[3] = d[first]
                    /\ assessment.signals[i].reason[4] = References[first]

\* C5 witness: the first reference name within 2 edits is 2 edits away, a
\* later one is 1 edit away, and the signal names the first
C5_Witness ==
    /\ pc = "done"
    /\ metadata # None
    /\ LET d == Distances
           first == FirstQualifying(d)
       IN  /\ first # 0
           /\ d[first] = 2
           /\ \E j \in 1..Len(d) : d[j] = 1
           /\ \E i \in SignalsOf(assessment, "typosquat") :
                 assessment.signals[i].reason[4] = References[first]

SecondsPerDay == 24 * 60 * 60

\* C10: the recency evaluator, reading the clock at now, adds a
\* fresh-release signal of severity 25 exactly when first_published is
\* present and at most 45 days before now, and adds nothing else; the
\* staleness evaluator adds a stale-package signal of severity 20 exactly
\* when latest_published is present and at least 365 days before now, and
\* adds nothing else; neither looks at the other's timestamp or signal.
C10_TimeWindows ==
    /\ [][(pc = "recency" /\ pc' = "staleness") =>
            LET first == metadata[1].first_published
                fresh == first # None /\ now - first[1] <= 45 * SecondsPerDay
            IN  IF fresh
                THEN /\ IsAddSignalStep
                     /\ assessment'.signals[Len(assessment'.signals)].category
                          = "fresh-release"
                     /\ assessment'.signals[Len(assessment'.signals)].score = 25
                ELSE assessment' = assessment]_vars
    /\ [][(pc = "staleness" /\ pc' = "popularity") =>
            LET latest == metadata[1].latest_published
                stale == latest # None /\ now - latest[1] >= 365 * SecondsPerDay
            IN  IF stale
                THEN /\ IsAddSignalStep
                     /\ assessment'.signals[Len(assessment'.signals)].category
                          = "stale-package"
                     /\ assessment'.signals[Len(assessment'.signals)].score = 20
                ELSE assessment' = assessment]_vars

\* C10 witness: first_published exactly 45 days and latest_published exactly
\* 365 days before the clock the evaluators read, and both signals emitted
C10_Witness ==
    /\ pc = "done"
    /\ metadata # None
    /\ ticks = 0
    /\ metadata[1].first_published = Some(now - 45 * SecondsPerDay)
    /\ metadata[1].latest_published = Some(now - 365 * SecondsPerDay)
    /\ SignalsOf(assessment, "fresh-release") # {}
    /\ SignalsOf(assessment, "stale-package") # {}

\* the place of a category in the order the evaluators run in
CategoryOrder ==
    <<"typosquat", "fresh-release", "stale-package", "popularity", "maintainers">>

CategoryRank(category) ==
    IF \E i \in 1..Len(CategoryOrder) : CategoryOrder[i] = category
    THEN CHOOSE i \in 1..Len(CategoryOrder) : CategoryOrder[i] = category
    ELSE 0

\* the signals an evaluator call appended
Appended == SubSeq(assessment'.signals, Len(assessment.signals) + 1,
                   Len(assessment'.signals))

\* C12: with metadata present, the categories of the signal list are, at
\* every moment, in the order typosquat, fresh-release, stale-package,
\* popularity, maintainers with none repeated; the five evaluators have run
\* in that order when assess_dependency returns; and each evaluator keeps
\* the signals it finds and appends exactly what it appends to an empty
\* assessment, whatever the earlier evaluators appended.
C12_SignalOrderIsEvaluationOrder ==
    /\ [](metadata # None =>
            /\ \A i, j \in 1..Len(assessment.signals) : i < j =>
                   /\ CategoryRank(assessment.signals[i].category) > 0
                   /\ CategoryRank(assessment.signals[i].category)
                        < CategoryRank(assessment.signals[j].category)
            /\ \A i \in 1..Len(assessment.signals) :
                   CategoryRank(assessment.signals[i].category) > 0
            /\ pc = "done" => evaluated = CategoryOrder)
    /\ [][(metadata # None /\ pc' # pc) =>
            /\ Len(assessment'.signals) >= Len(assessment.signals)
            /\ SubSeq(assessment'.signals, 1, Len(assessment.signals))
                 = assessment.signals
            /\ Appended =
                 CASE pc = "typosquat" ->
                        evaluate_typosquat(spec, PackageAssessment).signals
                   [] pc = "recency" ->
                        evaluate_recency(metadata[1], PackageAssessment, now).signals
                   [] pc = "staleness" ->
                        evaluate_staleness(metadata[1], PackageAssessment, now).signals
                   [] pc = "popularity" ->
                        evaluate_popularity(metadata[1], PackageAssessment).signals
                   [] pc = "maintainers" ->
                        evaluate_maintainers(metadata[1], PackageAssessment).signals
                   [] OTHER -> <<>>]_vars

\* C12 witness: a finished assessment in which every evaluator emitted its
\* signal, the five of them in evaluation order
C12_Witness ==
    /\ pc = "done"
    /\ metadata # None
    /\ [i \in 1..Len(assessment.signals) |-> assessment.signals[i].category]
         = CategoryOrder

(***************************************************************************)
(* The cache on a store of any content: one run, started on a cache file   *)
(* that is missing, is not JSON, or holds any JSON document.               *)
(***************************************************************************)
Slugs == { slug(s) : s \in ManifestSpecs }

\* the dump of a metadata record for slug k
StoredData(k) == model_dump(PackageMetadata(k[2], k[1], None, None, <<>>, None))

\* what a document may hold under slug k
StoredEntries(k) ==
    { JNull,
      JStr("x"),
      JDict([timestamp |-> JNum(0)]),
      JDict([data |-> StoredData(k)]),
      JDict([timestamp |-> JStr("x"), data |-> StoredData(k)]),
      JDict([timestamp |-> JNum(0), data |-> JStr("x")]),
      JDict([timestamp |-> JNum(0), data |-> StoredData(k)]) }

StoredDicts ==
    UNION { { f \in [ks -> UNION { StoredEntries(k) : k \in ks }] :
                \A k \in ks : f[k] \in StoredEntries(k) } : ks \in SUBSET Slugs }

StoredDocuments ==
    {JNull, JStr("x"), JList(<<>>)} \cup { JDict(f) : f \in StoredDicts }

InitStore ==
    /\ now = 0
    /\ ticks = 0
    /\ ScoringIdle
    /\ store \in {MissingFile, GarbageFile} \cup { JsonFile(j) : j \in StoredDocuments }
    /\ CliIdle

NextStore ==
    \/ ImportOsint("run1")
    \/ CollectDependencies("run1")
    \/ Iterate("run1")
    \/ Tick

SpecStore == InitStore /\ [][NextStore]_vars

(***************************************************************************)
(* Properties of the registry client and the cache.                        *)
(***************************************************************************)
\* run p has called fetch_metadata and it has returned
FetchReturns(p) == cpc[p] = "loop" /\ idx'[p] = idx[p] + 1

\* C3: fetch_metadata never raises, whatever the registry answers, so no
\* run's batch loop is ever aborted before it has fetched and scored every
\* dependency.
C3_FetchNeverRaises == \A p \in Runs : cpc[p] # "raised"

\* C6: when fetch_metadata returns a record it fetched from the registry,
\* a lookup in the run's cache at that moment yields that record and the
\* cache file holds the run's payload; and a fetch_metadata call for a slug
\* whose entry the run's cache holds, at most 6 hours after the entry was
\* written, sends no request and returns the record that was returned when
\* the entry was written.
C6_CacheFirstAndPopulated ==
    [][\A p \in Runs : FetchReturns(p) =>
          LET k == assessments[p][idx[p] + 1].slug
              e == assessments'[p][idx[p] + 1]
              before == payload[p][1]
              after == MetadataCache_get(payload'[p][1], k, now)
          IN  /\ (~e.hit /\ e.metadata # None) =>
                    /\ ~after.raised
                    /\ Truthy(after.value)
                    /\ model_validate(after.value) = Returned(e.metadata)
                    /\ store' = JsonFile(payload'[p][1])
              /\ (/\ k \in DOMAIN origin[p]
                  /\ now - before[2][k][2].timestamp[2] <= 6 * 60 * 60) =>
                    /\ e.hit
                    /\ e.metadata = Some(origin[p][k])
              /\ e.hit => e.requests = 0
              /\ ~e.hit => e.requests > 0]_vars

\* C6 witness: a run was answered by the cache exactly 6 hours after the
\* entry was written, with the record returned then
C6_Witness ==
    \E p \in Runs : \E i \in 1..Len(assessments[p]) :
       LET e == assessments[p][i]
       IN  /\ e.enriched
           /\ e.hit
           /\ e.requests = 0
           /\ e.metadata = Some(origin[p][e.slug])
           /\ e.at - payload[p][1][2][e.slug][2].timestamp[2] = 6 * 60 * 60

\* C7: a lookup returns absent exactly when the payload has no entry for
\* the slug or the entry is more than 6 hours old, and the stored data
\* otherwise; and no entry of a payload is ever removed, and none changes
\* except by the set call of a fetch that went to the registry for that
\* slug and got a record.
C7_GetExpiresWithoutEviction ==
    /\ [](\A p \in Runs : payload[p] # None =>
            \A k \in Slugs :
               LET pl == payload[p][1]
                   got == MetadataCache_get(pl, k, now)
               IN  /\ ~got.raised
                   /\ IF k \notin DOMAIN pl[2]
                         \/ now - pl[2][k][2].timestamp[2] > 6 * 60 * 60
                      THEN got.value = JNull
                      ELSE got.value = pl[2][k][2].data)
    /\ [][\A p \in Runs : payload[p] # None =>
            \A k \in DOMAIN payload[p][1][2] :
               /\ k \in DOMAIN payload'[p][1][2]
               /\ payload'[p][1][2][k] # payload[p][1][2][k] =>
                     /\ FetchReturns(p)
                     /\ assessments[p][idx[p] + 1].slug = k
                     /\ ~assessments'[p][idx[p] + 1].hit
                     /\ assessments'[p][idx[p] + 1].metadata # None]_vars

\* C7 witness: a run looked up a slug whose entry was more than 6 hours old,
\* got no record from the registry either, and the stale entry is still in
\* its payload
C7_Witness ==
    \E p \in Runs : \E i \in 1..Len(assessments[p]) :
       LET e == assessments[p][i]
       IN  /\ e.enriched
           /\ e.metadata = None
           /\ e.slug \in DOMAIN payload[p][1][2]
           /\ e.at - payload[p][1][2][e.slug][2].timestamp[2] > 6 * 60 * 60

\* C8: a set call leaves in the cache file every entry the file held for
\* another slug when the call was made.
C8_SetLosesNoUpdate ==
    [][(store' # store /\ store.kind = "json" /\ store.value[1] = "dict") =>
          \E written \in DOMAIN store'.value[2] :
             \A k \in DOMAIN store.value[2] \ {written} :
                /\ k \in DOMAIN store'.value[2]
                /\ store'.value[2][k] = store.value[2][k]]_vars

\* an entry as set writes it, holding the dump of a metadata record
WellFormedEntry(pl, k) ==
    /\ pl[1] = "dict"
    /\ k \in DOMAIN pl[2]
    /\ pl[2][k][1] = "dict"
    /\ DOMAIN pl[2][k][2] = {"timestamp", "data"}
    /\ pl[2][k][2].timestamp[1] = "num"
    /\ pl[2][k][2].data[1] = "dict"
    /\ {"name", "ecosystem"} \subseteq DOMAIN pl[2][k][2].data[2]

\* C9: whatever the cache file held when the cache was constructed, a lookup
\* never raises, and it yields absent for every slug the file holds no
\* well-formed entry for.
C9_CacheFailsOpen ==
    \A p \in Runs : payload[p] # None =>
       \A k \in Slugs :
          LET got == MetadataCache_get(payload[p][1], k, now)
          IN  /\ ~got.raised
              /\ ~WellFormedEntry(payload[p][1], k) => got.value = JNull

(***************************************************************************)
(* assess_dependency on what the registry client delivers: the metadata is *)
(* the result of one fetch_metadata call on an empty cache, for registry   *)
(* documents with any release timestamps around both thresholds.           *)
(***************************************************************************)
\* ages, in days, of the releases of a registry document
ReleaseAges ==
    { RECENT_THRESHOLD_DAYS - 1, RECENT_THRESHOLD_DAYS, RECENT_THRESHOLD_DAYS + 1,
      STALE_THRESHOLD_DAYS - 1, STALE_THRESHOLD_DAYS, STALE_THRESHOLD_DAYS + 1 }

\* the UTC offsets, in seconds, the timestamp texts are written with
ReleaseOffsets == { 0 - 12 * 60 * 60, 0, 14 * 60 * 60 }

ReleaseTexts ==
    { IsoTextAt(0 - timedelta(d), o) : d \in ReleaseAges, o \in ReleaseOffsets }

ReleaseLists == UNION { [1..n -> ReleaseTexts] : n \in 0..MaxReleases }

ReleasePypiDocs ==
    { [upload_times |-> l,
       maintainers |-> <<MaintainerObject("alice")>>,
       last_month_downloads |-> Some(LOW_DOWNLOADS_THRESHOLD)] : l \in ReleaseLists }

ReleaseNpmDocs ==
    { [time |-> << <<"created", IsoText(0 - timedelta(STALE_THRESHOLD_DAYS + 1))>> >>
                  \o [i \in 1..Len(l) |-> <<"version", l[i]>>]
                  \o << <<"modified", IsoText(0)>> >>,
       maintainers |-> <<MaintainerString("bob")>>] : l \in ReleaseLists }

ReleaseResponses(ecosystem) ==
    {StatusError}
      \cup { Ok(d) : d \in IF ecosystem = "pypi" THEN ReleasePypiDocs
                           ELSE ReleaseNpmDocs }

InitFetched ==
    /\ now = 0
    /\ ticks = 0
    /\ top_packages = CliTopPackages
    /\ spec \in { DependencySpec(<<"a", "b">>, e) : e \in Ecosystem }
    /\ \E resp \in ReleaseResponses(spec.ecosystem) :
          metadata = fetch_metadata(MetadataCache_init(MissingFile), spec, resp,
                                    Ok([downloads |-> Some(LOW_DOWNLOADS_THRESHOLD)]),
                                    0).value
    /\ assessment = PackageAssessment
    /\ pc = "start"
    /\ evaluated = <<>>
    /\ store = MissingFile
    /\ CliIdle

NextFetched ==
    \/ AssessStart
    \/ EvaluateTyposquat
    \/ EvaluateRecency
    \/ EvaluateStaleness
    \/ EvaluatePopularity
    \/ EvaluateMaintainers
    \/ Tick

SpecFetched == InitFetched /\ [][NextFetched]_vars

\* C11: no assessment of metadata delivered by the registry client, at any
\* moment of assess_dependency, holds both a fresh-release signal and a
\* stale-package signal.
C11_FreshAndStaleExclusive ==
    ~(/\ SignalsOf(assessment, "fresh-release") # {}
      /\ SignalsOf(assessment, "stale-package") # {})

\* C11 witness: a finished assessment of a package with two releases, where
\* the text taken as the earliest is the later instant and is within 45
\* days, so the fresh-release signal was emitted
C11_Witness ==
    /\ pc = "done"
    /\ metadata # None
    /\ metadata[1].first_published # None
    /\ metadata[1].latest_published # None
    /\ metadata[1].first_published[1] > metadata[1].latest_published[1]
    /\ SignalsOf(assessment, "fresh-release") # {}

====
